---- MODULE Spec2Model ----
(***************************************************************************)
(* The Beta distribution node of mxfusion/components/distributions/beta.py *)
(* as a state machine: nodes are constructed, then log_pdf and             *)
(* draw_samples are invoked on them, and define_variable constructs new    *)
(* nodes.                                                                  *)
(*                                                                         *)
(* Floating-point values are fixed-point integers in units of 1/One, with  *)
(* one value, NonFinite, for NaN and the infinities.  A tensor is a shape  *)
(* and its row-major data.  The operations of the computation mode F and   *)
(* the tensor operators broadcast their operands and raise the engine's    *)
(* error for shapes that do not broadcast; the mode a call uses is         *)
(* recorded with every operation it makes.  The random generator is an     *)
(* input of the model: what each of its draws returns is chosen freely.    *)
(*                                                                         *)
(* Spec is the life of the nodes under any sequence of calls; SpecPdf and  *)
(* SpecDraw apply log_pdf and draw_samples once, to a wider set of         *)
(* arguments.                                                              *)
(***************************************************************************)
EXTENDS Integers, Sequences, FiniteSets, TLC

VARIABLES nodes, defaultMode, last, nCalls, gammaCalls, gammaDraws, drawPassed,
          drawOk

vars == <<nodes, defaultMode, last, nCalls, gammaCalls, gammaDraws, drawPassed, drawOk>>

(* ------------------------------ bounds -------------------------------- *)

\* number of log_pdf / draw_samples / define_variable calls in a behaviour
MaxCalls == 2
\* largest extent of one tensor dimension, and largest num_samples
MaxDim == 3

(* --------------------------- scalar values ---------------------------- *)

\* Python's None
None == "None"

\* the literal 1 (1 - random_variable, alpha - 1, the default 1.) in fixed point
One == 1000

\* the engine's non-finite results (NaN, +Inf, -Inf), which absorb arithmetic
NonFinite == -999999999

Finite(v) == v # NonFinite

AddV(a, b) == IF Finite(a) /\ Finite(b) THEN a + b ELSE NonFinite
SubV(a, b) == IF Finite(a) /\ Finite(b) THEN a - b ELSE NonFinite
MulV(a, b) == IF Finite(a) /\ Finite(b) THEN (a * b) \div One ELSE NonFinite
DivV(a, b) == IF Finite(a) /\ Finite(b) /\ b # 0 THEN (a * One) \div b ELSE NonFinite

\* natural logarithm, tabulated on the positive values the inputs produce
LogTable == (250 :> -1386) @@ (500 :> -693) @@ (750 :> -288) @@ (1000 :> 0)
            @@ (1500 :> 405) @@ (2000 :> 693)
LogV(v) == IF Finite(v) /\ v > 0 THEN LogTable[v] ELSE NonFinite

\* log-gamma function, tabulated; it has poles at the non-positive integers
GammaLnTable == (1000 :> 0) @@ (2000 :> 0) @@ (3000 :> 693) @@ (4000 :> 1792)
                @@ (5000 :> 3178) @@ (6000 :> 4787)
GammaLnV(v) == IF Finite(v) /\ v > 0 THEN GammaLnTable[v] ELSE NonFinite

(* ------------------------------ tensors ------------------------------- *)

RECURSIVE Size(_)
Size(shape) == IF shape = <<>> THEN 1 ELSE Head(shape) * Size(Tail(shape))

Max(a, b) == IF a >= b THEN a ELSE b

\* shape s padded on the left with 1s to rank r
Pad(s, r) == [j \in 1..r |-> IF j <= r - Len(s) THEN 1 ELSE s[j - (r - Len(s))]]

Compatible(s1, s2) ==
    LET r == Max(Len(s1), Len(s2))
        p1 == Pad(s1, r)
        p2 == Pad(s2, r)
    IN \A j \in 1..r : p1[j] = p2[j] \/ p1[j] = 1 \/ p2[j] = 1

BroadcastShape(s1, s2) ==
    LET r == Max(Len(s1), Len(s2))
        p1 == Pad(s1, r)
        p2 == Pad(s2, r)
    IN [j \in 1..r |-> Max(p1[j], p2[j])]

\* product of the extents after dimension j
RECURSIVE Stride(_, _)
Stride(shape, j) == IF j >= Len(shape) THEN 1 ELSE shape[j + 1] * Stride(shape, j + 1)

\* the (1-based) element of a tensor of shape s that output element k of a
\* tensor of shape out reads when s is broadcast to out
RECURSIVE SrcFrom(_, _, _, _)
SrcFrom(k, out, p, j) ==
    IF j > Len(out) THEN 0
    ELSE LET idx == ((k - 1) \div Stride(out, j)) % out[j]
         IN (IF p[j] = 1 THEN 0 ELSE idx * Stride(p, j)) + SrcFrom(k, out, p, j + 1)
Src(k, out, s) == IF s = out THEN k ELSE 1 + SrcFrom(k, out, Pad(s, Len(out)), 1)

Tensor(shape, data) == [ok |-> TRUE, err |-> "", shape |-> shape, data |-> data]

\* the value of an expression whose evaluation raised error err
Raised(err) == [ok |-> FALSE, err |-> err, shape |-> <<>>, data |-> <<>>]

\* the error the tensor engine raises (shapes that do not broadcast)
MXNetError == "MXNetError"

\* the one element of a singleton set: Only({e(v) : v \in {x}}) is e(x) with
\* x evaluated once
Only(S) == CHOOSE v \in S : TRUE

\* the elementwise operations of the tensor engine, on one element
Apply1(op, v) ==
    CASE op = "log" -> LogV(v)
      [] op = "gammaln" -> GammaLnV(v)
      [] op = "ones_like" -> One

Apply2(op, x, y) ==
    CASE op = "add" -> AddV(x, y)
      [] op = "sub" -> SubV(x, y)
      [] op = "mul" -> MulV(x, y)
      [] op = "div" -> DivV(x, y)

\* an elementwise unary operation of the tensor engine
Map1(op, t0) ==
    Only({IF ~t.ok THEN t
          ELSE Tensor(t.shape, [i \in 1..Len(t.data) |-> Apply1(op, t.data[i])])
          : t \in {t0}})

\* an elementwise binary operation of the tensor engine, with broadcasting;
\* incompatible shapes raise the engine's error
Map2(op, a0, b0) ==
    Only({IF ~a.ok THEN a
          ELSE IF ~b.ok THEN b
          ELSE IF ~Compatible(a.shape, b.shape) THEN Raised(MXNetError)
          ELSE LET out == BroadcastShape(a.shape, b.shape)
               IN Tensor(out, [k \in 1..Size(out) |->
                             Apply2(op, a.data[Src(k, out, a.shape)],
                                        b.data[Src(k, out, b.shape)])])
          : a \in {a0}, b \in {b0}})

\* a Python scalar as an operand
Scalar(v) == Tensor(<<>>, <<v>>)

\* the provider's operations (F.log, F.gammaln, F.broadcast_add, ...) and the
\* tensor operators of Python (-, *, +), which broadcast as well
log(t) == Map1("log", t)
gammaln(t) == Map1("gammaln", t)
ones_like(t) == Map1("ones_like", t)
broadcast_add(a, b) == Map2("add", a, b)
broadcast_div(a, b) == Map2("div", a, b)
add(a, b) == Map2("add", a, b)
sub(a, b) == Map2("sub", a, b)

\* a product that does not broadcast: operands of unequal shapes raise
elemwise_mul(a, b) ==
    IF a.ok /\ b.ok /\ a.shape # b.shape THEN Raised(MXNetError) ELSE Map2("mul", a, b)
mul(a, b) == Map2("mul", a, b)

(* ------------------------------ the node ------------------------------ *)

\* the generator a node uses when none is injected
MXNetRandomGenerator == "MXNetRandomGenerator"

\* the base distribution's constructor: it keeps the inputs, the names, the
\* generator (the default one when none is given), the dtype and the context
Distribution(inputs, outputs, input_names, output_names, rand_gen, dtype, ctx) ==
    [inputs |-> inputs, outputs |-> outputs,
     input_names |-> input_names, output_names |-> output_names,
     rand_gen |-> IF rand_gen = None THEN MXNetRandomGenerator ELSE rand_gen,
     dtype |-> dtype, ctx |-> ctx]

\* Beta.__init__ with the inputs listed in the other order
Beta_swapped(alpha, beta, rand_gen, dtype, ctx) ==
    LET inputs == << <<"beta", beta>>, <<"alpha", alpha>> >>
        input_names == [k \in 1..Len(inputs) |-> inputs[k][1]]
        output_names == <<"random_variable">>
    IN Distribution(inputs, <<>>, input_names, output_names, rand_gen, dtype, ctx)

\* Beta.__init__
Beta(alpha, beta, rand_gen, dtype, ctx) ==
    LET inputs == << <<"alpha", alpha>>, <<"beta", beta>> >>
        input_names == [k \in 1..Len(inputs) |-> inputs[k][1]]
        output_names == <<"random_variable">>
    IN Distribution(inputs, <<>>, input_names, output_names, rand_gen, dtype, ctx)

\* the base distribution's _generate_outputs: one variable per output name,
\* of the given shape
generate_outputs(self, shape) ==
    [self EXCEPT !.outputs =
        [k \in 1..Len(self.output_names) |->
            <<self.output_names[k], [type |-> "Variable", shape |-> shape]>>]]

\* the node's random_variable attribute: the variable of its first output
random_variable_of(self) == self.outputs[1][2]

\* the process-wide default computation mode, read when a call is made
get_default_MXNet_mode == defaultMode

(* ----------------------------- log_pdf_impl --------------------------- *)

\* the default mode overriding a given one
mode_default(F0) == get_default_MXNet_mode

\* F = get_default_MXNet_mode() if F is None else F
mode(F0) == IF F0 = None THEN get_default_MXNet_mode ELSE F0

Op(name, F) == [op |-> name, F |-> F]

\* what a call did: the node after it, the mode it used, how it ended
\* ("ok" or the error raised), the error's message, the value returned, the
\* provider operations and the gamma draws it made, in order
Outcome(self, F, t, msg, ops, gamma) ==
    [self |-> self, F |-> F,
     outcome |-> IF t.ok THEN "ok" ELSE t.err,
     msg |-> msg, result |-> t, ops |-> ops, gamma |-> gamma]

\* log_beta_ab with the sign of lnGamma(alpha + beta) wrong
log_beta_plus(alpha, beta) ==
    add(add(gammaln(alpha), gammaln(beta)), gammaln(add(alpha, beta)))

\* log_beta_ab
log_beta(alpha, beta) ==
    sub(add(gammaln(alpha), gammaln(beta)), gammaln(add(alpha, beta)))

\* log_likelihood, from log_x, log_1_minus_x and log_beta_ab
log_likelihood(alpha, beta, random_variable) ==
    LET log_x == log(random_variable)
        log_1_minus_x == log(sub(Scalar(One), random_variable))
        log_beta_ab == log_beta(alpha, beta)
    IN sub(broadcast_add(mul(sub(alpha, Scalar(One)), log_x),
                         mul(sub(beta, Scalar(One)), log_1_minus_x)),
           log_beta_ab)

\* the provider operations log_pdf_impl reaches, in the order it makes them
log_pdf_ops(alpha, beta, random_variable, F) ==
    <<Op("log", F), Op("log", F), Op("gammaln", F), Op("gammaln", F)>>
    \o (IF Compatible(alpha.shape, beta.shape) THEN <<Op("gammaln", F)>> ELSE <<>>)
    \o (IF /\ Compatible(alpha.shape, beta.shape)
           /\ Compatible(alpha.shape, random_variable.shape)
           /\ Compatible(beta.shape, random_variable.shape)
        THEN <<Op("broadcast_add", F)>> ELSE <<>>)

\* log_pdf_impl settling the node's dtype when none was given
log_pdf_impl_setting_dtype(self, alpha, beta, random_variable, F0) ==
    LET F == mode(F0)
    IN Outcome([self EXCEPT !.dtype = IF @ = None THEN "float32" ELSE @],
               F, log_likelihood(alpha, beta, random_variable), <<>>,
               log_pdf_ops(alpha, beta, random_variable, F), <<>>)

log_pdf_impl(self, alpha, beta, random_variable, F0) ==
    LET F == mode(F0)
    IN Outcome(self, F, log_likelihood(alpha, beta, random_variable), <<>>,
               log_pdf_ops(alpha, beta, random_variable, F), <<>>)

(* --------------------------- draw_samples_impl ------------------------ *)

\* the values a gamma draw produces: draw d fills the tensor from GammaVals
GammaVals == <<500, 1500, 1000>>

GeneratorError == "GeneratorError"

\* the generator's sample_gamma: a draw for every element of the parameters
\* broadcast against each other (then of `shape` per element), or an error:
\* the generator's own (draw 0), or for parameters that do not broadcast
sample_gamma(alpha, beta, shape, draw) ==
    IF draw = 0 \/ ~Compatible(alpha.shape, beta.shape) THEN Raised(GeneratorError)
    ELSE LET out == BroadcastShape(alpha.shape, beta.shape) \o shape
         IN Tensor(out, [k \in 1..Size(out) |->
                            GammaVals[((draw + k) % Len(GammaVals)) + 1]])

\* one invocation of the gamma primitive, as the generator sees it
GammaCall(gen, alpha, beta, shape, dtype, ctx, F, out) ==
    [gen |-> gen, alpha |-> alpha, beta |-> beta, shape |-> shape,
     dtype |-> dtype, ctx |-> ctx, F |-> F, out |-> out]

ValueError == "ValueError"

\* rv_shape + (num_samples, )
expected_shape_swapped(num_samples, rv_shape) == rv_shape \o <<num_samples>>

\* (num_samples, ) + rv_shape
expected_shape(num_samples, rv_shape) == <<num_samples>> \o rv_shape

\* raise ValueError("Shape mismatch between inputs {} and random variable {}")
shape_mismatch(self, F, alpha, expected) ==
    Outcome(self, F, Raised(ValueError),
            <<"Shape mismatch between inputs ", alpha.shape,
              " and random variable ", expected>>, <<>>, <<>>)

\* Y / (X + Y)
gamma_ratio_y(x, y) == broadcast_div(y, broadcast_add(x, y))

\* X / (X + Y)
gamma_ratio(x, y) == broadcast_div(x, broadcast_add(x, y))

\* the draws of X and Y and their ratio; the generator answers dx, then dy
sample_ratio(self, alpha, beta, F, dx, dy) ==
    LET out_shape == <<>>
        ones == ones_like(alpha)
        x == sample_gamma(alpha, ones, out_shape, dx)
        gx == GammaCall(self.rand_gen, alpha, ones, out_shape,
                        self.dtype, self.ctx, F, x)
        y == sample_gamma(beta, ones, out_shape, dy)
        gy == GammaCall(self.rand_gen, beta, ones, out_shape,
                        self.dtype, self.ctx, F, y)
    IN IF ~x.ok
       THEN Outcome(self, F, x, <<>>, <<Op("ones_like", F)>>, <<gx>>)
       ELSE IF ~y.ok
       THEN Outcome(self, F, y, <<>>, <<Op("ones_like", F)>>, <<gx, gy>>)
       ELSE Outcome(self, F, gamma_ratio(x, y), <<>>,
                    <<Op("ones_like", F), Op("broadcast_add", F)>>
                    \o (IF Compatible(x.shape, y.shape)
                        THEN <<Op("broadcast_div", F)>> ELSE <<>>),
                    <<gx, gy>>)

\* draw_samples_impl checking the shape of beta as it checks alpha's
draw_samples_impl_checking_beta(self, alpha, beta, rv_shape, num_samples, F0, dx, dy) ==
    LET F == mode(F0)
        expected == expected_shape(num_samples, rv_shape)
    IN IF alpha.shape # expected
       THEN shape_mismatch(self, F, alpha, expected)
       ELSE IF beta.shape # expected
       THEN shape_mismatch(self, F, beta, expected)
       ELSE sample_ratio(self, alpha, beta, F, dx, dy)

\* draw_samples_impl drawing before it checks the shape
draw_samples_impl_drawing_first(self, alpha, beta, rv_shape, num_samples, F0, dx, dy) ==
    LET F == mode(F0)
        expected == expected_shape(num_samples, rv_shape)
        drawn == sample_ratio(self, alpha, beta, F, dx, dy)
    IN IF alpha.shape # expected
       THEN [shape_mismatch(self, F, alpha, expected) EXCEPT
                !.ops = drawn.ops, !.gamma = drawn.gamma]
       ELSE drawn

draw_samples_impl(self, alpha, beta, rv_shape, num_samples, F0, dx, dy) ==
    LET F == mode(F0)
        expected == expected_shape(num_samples, rv_shape)
    IN IF alpha.shape # expected
       THEN shape_mismatch(self, F, alpha, expected)
       ELSE sample_ratio(self, alpha, beta, F, dx, dy)

(* ----------------------------- define_variable ------------------------ *)

\* an optional argument: <<>> when the caller omits it, <<v>> when given
Default(arg, d) == IF arg = <<>> THEN d ELSE arg[1]

\* define_variable passing alpha for beta and beta for alpha
define_variable_swapped(alpha0, beta0, shape, rand_gen, dtype, ctx) ==
    LET alpha == Default(alpha0, One)
        beta == Default(beta0, One)
        node == generate_outputs(Beta(beta, alpha, rand_gen, dtype, ctx), shape)
    IN [node |-> node, handle |-> random_variable_of(node)]

define_variable(alpha0, beta0, shape, rand_gen, dtype, ctx) ==
    LET alpha == Default(alpha0, One)
        beta == Default(beta0, One)
        node == generate_outputs(Beta(alpha, beta, rand_gen, dtype, ctx), shape)
    IN [node |-> node, handle |-> random_variable_of(node)]

(* ------------------------------- inputs ------------------------------- *)

Modes == {"ndarray", "symbol"}

\* the shapes of rank rmin..rmax
Shapes(rmin, rmax) == UNION {[1..r -> 1..MaxDim] : r \in rmin..rmax}

\* the tensor of the given shape whose elements run through vals from base
Fill(shape, vals, base) ==
    Tensor(shape, [k \in 1..Size(shape) |-> vals[((base + k - 1) % Len(vals)) + 1]])

TensorsOf(shapes, vals, bases) == {Fill(s, vals, b) : s \in shapes, b \in bases}

\* parameter values: valid ones, and 0, which is not a valid parameter
ParamVals == <<1000, 2000, 0, 3000>>
\* values of the random variable: inside (0,1), and 0, which is outside
XVals == <<250, 500, 750, 0>>

\* what a generator does at one draw: 0 raises, d > 0 draws pattern d
Draws == 0..2

\* the generator, dtype and context a node is constructed with
NodeOptions == {<<None, None, None>>, <<"rand_gen", "float64", "gpu">>}

(* ------------------------------- actions ------------------------------ *)

NoCall == [op |-> "none"]

Init ==
    /\ nodes = <<Beta(One, 2 * One, None, None, None)>>
    /\ defaultMode = "ndarray"
    /\ last = NoCall
    /\ nCalls = 0
    /\ gammaCalls = 0
    /\ gammaDraws = 0
    /\ drawPassed = 0
    /\ drawOk = 0

\* the draws among the gamma invocations g that returned
Returned(g) == Len(SelectSeq(g, LAMBDA c : c.out.ok))

\* a call of log_pdf on node n
LogPdf(n, alpha, beta, random_variable, F0) ==
    /\ nCalls < MaxCalls
    /\ \E r \in {log_pdf_impl(nodes[n], alpha, beta, random_variable, F0)} :
          /\ nodes' = [nodes EXCEPT ![n] = r.self]
          /\ last' = [op |-> "log_pdf", node |-> n, alpha |-> alpha, beta |-> beta,
                      random_variable |-> random_variable, F0 |-> F0,
                      default |-> defaultMode, r |-> r]
          /\ gammaCalls' = gammaCalls + Len(r.gamma)
          /\ gammaDraws' = gammaDraws + Returned(r.gamma)
    /\ nCalls' = nCalls + 1
    /\ UNCHANGED <<defaultMode, drawPassed, drawOk>>

\* a call of draw_samples on node n; the generator answers dx, then dy
DrawSamples(n, alpha, beta, rv_shape, num_samples, F0, dx, dy) ==
    /\ nCalls < MaxCalls
    /\ \E r \in {draw_samples_impl(nodes[n], alpha, beta, rv_shape, num_samples,
                                  F0, dx, dy)} :
          /\ nodes' = [nodes EXCEPT ![n] = r.self]
          /\ last' = [op |-> "draw_samples", node |-> n, alpha |-> alpha,
                      beta |-> beta, rv_shape |-> rv_shape,
                      num_samples |-> num_samples, F0 |-> F0,
                      default |-> defaultMode, r |-> r]
          /\ gammaCalls' = gammaCalls + Len(r.gamma)
          /\ gammaDraws' = gammaDraws + Returned(r.gamma)
          /\ drawPassed' = drawPassed + (IF r.outcome = ValueError THEN 0 ELSE 1)
          /\ drawOk' = drawOk + (IF r.outcome = "ok" THEN 1 ELSE 0)
    /\ nCalls' = nCalls + 1
    /\ UNCHANGED defaultMode

\* a call of Beta.define_variable
DefineVariable(alpha0, beta0, shape, rand_gen, dtype, ctx) ==
    /\ nCalls < MaxCalls
    /\ \E d \in {define_variable(alpha0, beta0, shape, rand_gen, dtype, ctx)} :
          /\ nodes' = Append(nodes, d.node)
          /\ last' = [op |-> "define_variable", node |-> Len(nodes) + 1,
                      alpha0 |-> alpha0, beta0 |-> beta0, shape |-> shape,
                      rand_gen |-> rand_gen, dtype |-> dtype, ctx |-> ctx,
                      handle |-> d.handle]
    /\ nCalls' = nCalls + 1
    /\ UNCHANGED <<defaultMode, gammaCalls, gammaDraws, drawPassed, drawOk>>

\* the process-wide default mode is reconfigured
SetDefaultMode(m) ==
    /\ m # defaultMode
    /\ defaultMode' = m
    /\ UNCHANGED <<nodes, last, nCalls, gammaCalls, gammaDraws, drawPassed, drawOk>>

\* the arguments the calls of a behaviour are made with: tensors of two
\* shapes that do not broadcast against each other
LifeShapes == {<<2>>, <<MaxDim>>}
LifeAlphas == TensorsOf(LifeShapes, ParamVals, {0})
LifeBetas == TensorsOf(LifeShapes, ParamVals, {1})
LifeXs == TensorsOf(LifeShapes, XVals, {0})
GivenModes == {None, "symbol"}
\* here the generator raises only for parameters that do not broadcast
LifeDraws == {1}

CallLogPdf ==
    \E n \in 1..Len(nodes), F0 \in GivenModes :
    \E alpha \in LifeAlphas, beta \in LifeBetas, x \in LifeXs :
        LogPdf(n, alpha, beta, x, F0)

CallDrawSamples ==
    \E n \in 1..Len(nodes), F0 \in GivenModes, num_samples \in {2, MaxDim} :
    \E alpha \in LifeBetas, beta \in LifeAlphas, dx \in LifeDraws, dy \in LifeDraws :
        DrawSamples(n, alpha, beta, <<>>, num_samples, F0, dx, dy)

\* alpha and beta as define_variable is given them: both omitted, or one given
LifeParams == {<<<<>>, <<>>>>, <<<<2 * One>>, <<>>>>, <<<<>>, <<3 * One>>>>}

CallDefineVariable ==
    \E ab \in LifeParams, shape \in LifeShapes, o \in NodeOptions :
        DefineVariable(ab[1], ab[2], shape, o[1], o[2], o[3])

Configure == \E m \in Modes : SetDefaultMode(m)

Next == CallLogPdf \/ CallDrawSamples \/ CallDefineVariable \/ Configure

Spec == Init /\ [][Next]_vars

(* --------- log_pdf and draw_samples applied once to any arguments ------ *)

Bases == 0..3
AnyAlphas == TensorsOf(Shapes(1, 1), ParamVals, Bases)
AnyBetas == TensorsOf(Shapes(1, 1), ParamVals, Bases)
AnyXs == TensorsOf(Shapes(1, 2), XVals, Bases)
AnyModes == Modes \cup {None}

ApplyLogPdf ==
    /\ nCalls = 0
    /\ \E alpha \in AnyAlphas, beta \in AnyBetas, x \in AnyXs, F0 \in AnyModes :
          LogPdf(1, alpha, beta, x, F0)

SpecPdf == Init /\ [][ApplyLogPdf]_vars

DrawAlphas == TensorsOf(Shapes(1, 2), ParamVals, {0, 2})
DrawBetas == TensorsOf(Shapes(1, 2), ParamVals, {1})

ApplyDrawSamples ==
    /\ nCalls = 0
    /\ \E rv_shape \in Shapes(0, 1), num_samples \in 1..MaxDim, F0 \in AnyModes :
       \E alpha \in DrawAlphas, beta \in DrawBetas, dx \in Draws, dy \in Draws :
          DrawSamples(1, alpha, beta, rv_shape, num_samples, F0, dx, dy)

SpecDraw == Init /\ [][ApplyDrawSamples]_vars

(* ------------------------------- claims ------------------------------- *)

IsPdf == last.op = "log_pdf"
IsDraw == last.op = "draw_samples"
IsDefine == last.op = "define_variable"

\* (num_samples,) + shape of the last draw_samples call
LastExpected == <<last.num_samples>> \o last.rv_shape

\* C1: draw_samples fails with the shape-mismatch error exactly when alpha's
\* shape differs from (num_samples,) + shape, and the message then carries
\* the observed alpha shape and the expected shape.
C1_ShapeMismatchIff ==
    IsDraw =>
        /\ (last.r.outcome = ValueError) <=> (last.alpha.shape # LastExpected)
        /\ last.r.outcome = ValueError =>
              /\ Len(last.r.msg) = 4
              /\ last.r.msg[2] = last.alpha.shape
              /\ last.r.msg[4] = LastExpected

\* alpha shaped (num_samples,) + shape2 with shape2 other than the requested
\* shape, and the call failed
C1_Witness ==
    /\ IsDraw
    /\ last.r.outcome = ValueError
    /\ Len(last.alpha.shape) = 2
    /\ Len(last.rv_shape) = 1
    /\ last.alpha.shape[1] = last.num_samples
    /\ last.alpha.shape[2] # last.rv_shape[1]

\* the tensor of ones of the shape of t
OnesOf(t) == Tensor(t.shape, [k \in 1..Size(t.shape) |-> One])

\* C2: when alpha's shape is (num_samples,) + shape, X is drawn first, with
\* shape parameter alpha and unit scale; Y is drawn second, with shape
\* parameter beta and the same scale; and the value returned is X / (X + Y)
\* of these two draws, element by element.
C2_GammaRatio ==
    (IsDraw /\ last.alpha.shape = LastExpected) =>
        LET g == last.r.gamma
        IN /\ Len(g) >= 1
           /\ g[1].alpha = last.alpha
           /\ g[1].beta = OnesOf(last.alpha)
           /\ g[1].out.ok =>
                 /\ Len(g) = 2
                 /\ g[2].alpha = last.beta
                 /\ g[2].beta = g[1].beta
           /\ (Len(g) = 2 /\ g[1].out.ok /\ g[2].out.ok) =>
                 LET x == g[1].out
                     y == g[2].out
                     out == BroadcastShape(x.shape, y.shape)
                 IN /\ last.r.outcome = "ok"
                    /\ last.r.result.shape = out
                    /\ \A k \in 1..Size(out) :
                          LET xk == x.data[Src(k, out, x.shape)]
                              yk == y.data[Src(k, out, y.shape)]
                          IN last.r.result.data[k] = (xk * One) \div (xk + yk)

\* a successful draw whose X and Y differ
C2_Witness ==
    /\ IsDraw
    /\ last.r.outcome = "ok"
    /\ Len(last.r.gamma) = 2
    /\ last.r.gamma[1].out.data[1] # last.r.gamma[2].out.data[1]
    /\ Size(last.r.result.shape) >= 2

\* the Beta log-density of x under parameters a and b, for valid arguments
BetaLogDensity(a, b, x) ==
    ((a - One) * LogTable[x]) \div One + ((b - One) * LogTable[One - x]) \div One
    - (GammaLnTable[a] + GammaLnTable[b] - GammaLnTable[a + b])

Valid(a, b, x) == a > 0 /\ b > 0 /\ 0 < x /\ x < One

\* the shape alpha, beta and the random variable broadcast to
PdfShape(alpha, beta, x) ==
    BroadcastShape(BroadcastShape(alpha.shape, beta.shape), x.shape)

\* C3: wherever alpha, beta > 0 and x is in (0,1), log_pdf is
\* (alpha-1)*log(x) + (beta-1)*log(1-x) - [lnG(alpha) + lnG(beta) - lnG(alpha+beta)].
C3_ClosedForm ==
    (IsPdf /\ last.r.outcome = "ok") =>
        LET out == PdfShape(last.alpha, last.beta, last.random_variable)
        IN /\ last.r.result.shape = out
           /\ \A k \in 1..Size(out) :
                 LET a == last.alpha.data[Src(k, out, last.alpha.shape)]
                     b == last.beta.data[Src(k, out, last.beta.shape)]
                     x == last.random_variable.data[
                              Src(k, out, last.random_variable.shape)]
                 IN Valid(a, b, x) =>
                       last.r.result.data[k] = BetaLogDensity(a, b, x)

\* a log_pdf of valid arguments whose elements have different densities
C3_Witness ==
    /\ IsPdf
    /\ last.r.outcome = "ok"
    /\ Size(last.r.result.shape) >= 2
    /\ \A k \in 1..Len(last.alpha.data) : last.alpha.data[k] > 0
    /\ \A k \in 1..Len(last.beta.data) : last.beta.data[k] > 0
    /\ \A k \in 1..Len(last.random_variable.data) :
          0 < last.random_variable.data[k] /\ last.random_variable.data[k] < One
    /\ last.r.result.data[1] # last.r.result.data[2]
    /\ last.r.result.data[1] # 0

ScalarPdfCase ==
    /\ IsPdf
    /\ last.alpha.shape = <<1>>
    /\ last.beta.shape = <<1>>
    /\ Len(last.random_variable.shape) = 1

\* C4: with scalar alpha and beta and a random variable of shape (N,),
\* log_pdf raises nothing and its i-th element is log_pdf of
\* (alpha, beta, x[i]) alone.
C4_Broadcast ==
    ScalarPdfCase =>
        LET N == last.random_variable.shape[1]
        IN /\ last.r.outcome = "ok"
           /\ last.r.result.shape = <<N>>
           /\ \A i \in 1..N :
                 LET alone == log_likelihood(last.alpha, last.beta,
                                  Tensor(<<1>>, <<last.random_variable.data[i]>>))
                 IN /\ alone.ok
                    /\ last.r.result.data[i] = alone.data[1]

\* scalar parameters against a vector whose elements have different densities
C4_Witness ==
    /\ ScalarPdfCase
    /\ last.random_variable.shape[1] >= 2
    /\ last.r.outcome = "ok"
    /\ Finite(last.r.result.data[1])
    /\ Finite(last.r.result.data[2])
    /\ last.r.result.data[1] # last.r.result.data[2]

\* C5: every node has exactly the inputs "alpha" and "beta", in that order,
\* and the one output "random_variable", whatever calls were made on it.
C5_Names ==
    \A i \in 1..Len(nodes) :
        /\ nodes[i].input_names = <<"alpha", "beta">>
        /\ nodes[i].output_names = <<"random_variable">>
        /\ Len(nodes[i].inputs) = 2
        /\ nodes[i].inputs[1][1] = "alpha"
        /\ nodes[i].inputs[2][1] = "beta"

\* a failing draw_samples after another call, with a second node defined
C5_Witness ==
    /\ IsDraw
    /\ last.r.outcome = ValueError
    /\ nCalls >= 2
    /\ Len(nodes) >= 2
    /\ last.node = 2

PdfBroadcasts ==
    /\ Compatible(last.alpha.shape, last.beta.shape)
    /\ Compatible(last.alpha.shape, last.random_variable.shape)
    /\ Compatible(last.beta.shape, last.random_variable.shape)

\* C6: log_pdf raises no error of its own (it ends well, or with the
\* engine's error when the shapes do not broadcast); draw_samples with alpha
\* of shape (num_samples,) + shape raises no shape-mismatch error whatever
\* the values and whatever beta's shape; and an error of the generator ends
\* the call as that error.
C6_OnlyExplicitFailure ==
    /\ IsPdf =>
          /\ last.r.outcome # ValueError
          /\ PdfBroadcasts => last.r.outcome = "ok"
          /\ ~PdfBroadcasts => last.r.outcome = MXNetError
    /\ (IsDraw /\ last.alpha.shape = LastExpected) =>
          /\ last.r.outcome # ValueError
          /\ \A k \in 1..Len(last.r.gamma) :
                ~last.r.gamma[k].out.ok =>
                    /\ last.r.outcome = last.r.gamma[k].out.err
                    /\ last.r.result = last.r.gamma[k].out
          /\ (\A k \in 1..Len(last.r.gamma) : last.r.gamma[k].out.ok) =>
                last.r.outcome = "ok"

\* a draw with a non-positive alpha of the right shape and a beta of another
\* shape, ended by the generator's error
C6_Witness ==
    /\ IsDraw
    /\ last.alpha.shape = LastExpected
    /\ \E k \in 1..Len(last.alpha.data) : last.alpha.data[k] <= 0
    /\ ~Compatible(last.beta.shape, last.alpha.shape)
    /\ last.r.outcome = GeneratorError
    /\ last.r.gamma[1].out.ok

\* the value log_pdf has for its arguments, whatever preceded the call
PdfValue(alpha, beta, x) ==
    IF ~(/\ Compatible(alpha.shape, beta.shape)
         /\ Compatible(alpha.shape, x.shape)
         /\ Compatible(beta.shape, x.shape))
    THEN Raised(MXNetError)
    ELSE LET out == PdfShape(alpha, beta, x)
         IN Tensor(out, [k \in 1..Size(out) |->
                LET a == alpha.data[Src(k, out, alpha.shape)]
                    b == beta.data[Src(k, out, beta.shape)]
                    v == x.data[Src(k, out, x.shape)]
                IN IF Valid(a, b, v) THEN BetaLogDensity(a, b, v) ELSE NonFinite])

\* C7: a call leaves every node as it was (its bound alpha and beta, dtype,
\* context and generator), and what a log_pdf call returns is determined by
\* its arguments, not by the calls before it.
C7_Stateless ==
    [][/\ \A i \in 1..Len(nodes) : nodes'[i] = nodes[i]
       /\ (nCalls' > nCalls /\ last'.op = "log_pdf") =>
             last'.r.result = PdfValue(last'.alpha, last'.beta,
                                       last'.random_variable)]_vars

\* a log_pdf call made after a draw_samples call that drew
C7_Witness ==
    /\ IsPdf
    /\ nCalls >= 2
    /\ gammaCalls >= 1
    /\ last.r.outcome = "ok"

\* C8: define_variable constructs a new node with the given alpha and beta
\* (1. each when omitted) and returns the node's random_variable, a
\* variable of the requested shape.
C8_DefineVariable ==
    IsDefine =>
        LET node == nodes[last.node]
        IN /\ last.node = Len(nodes)
           /\ node.inputs = << <<"alpha", Default(last.alpha0, One)>>,
                               <<"beta", Default(last.beta0, One)>> >>
           /\ node.rand_gen = (IF last.rand_gen = None THEN MXNetRandomGenerator
                               ELSE last.rand_gen)
           /\ node.dtype = last.dtype
           /\ node.ctx = last.ctx
           /\ Len(node.outputs) = 1
           /\ node.outputs[1][1] = "random_variable"
           /\ last.handle = node.outputs[1][2]
           /\ last.handle.shape = last.shape

\* define_variable with the default alpha and a given beta
C8_Witness ==
    /\ IsDefine
    /\ last.alpha0 = <<>>
    /\ last.beta0 # <<>>
    /\ Len(nodes) = 2
    /\ nodes[2].inputs[1][2] = One
    /\ nodes[2].inputs[2][2] = 3 * One

\* the mode the last call was to use
LastMode == IF last.F0 = None THEN last.default ELSE last.F0

\* C9: a call given a mode F makes every provider operation and both gamma
\* draws with F; a call given none uses the default mode as it was when the
\* call was made.
C9_ModePerCall ==
    (IsPdf \/ IsDraw) =>
        /\ last.r.F = LastMode
        /\ \A k \in 1..Len(last.r.ops) : last.r.ops[k].F = LastMode
        /\ \A k \in 1..Len(last.r.gamma) : last.r.gamma[k].F = LastMode

\* a successful draw given a mode other than the default
C9_Witness ==
    /\ IsDraw
    /\ last.F0 # None
    /\ last.F0 # last.default
    /\ Len(last.r.gamma) = 2
    /\ Len(last.r.ops) = 3

====
